---- MODULE Spec2Model ----
(***************************************************************************)
(* Model of hubblestack/extmods/fdg/time_sync.py: time_check and the       *)
(* offset parser _query_ntp_server.                                        *)
(*                                                                         *)
(* Python lists are heap objects: object "S" is the list the caller        *)
(* passes as ntp_servers, object "C" the list passed as chained.  A        *)
(* reference is "S", "C" or "None".  Text returned by cmd.run is a         *)
(* sequence of whitespace-delimited tokens in which "\n" separates lines   *)
(* and "offset" is the literal the parser splits on.  Offsets are          *)
(* seconds.                                                                *)
(***************************************************************************)
EXTENDS Integers, Sequences, FiniteSets, TLC

\* ---- bounds of the model ----
MaxServers == 2
MaxChained == 1
MaxCalls == 2
MaxQuorum == 2

\* ---- input alphabets ----
\* addresses the caller's lists are filled from, in this order
ServerPool == <<"a", "b", "c", "d">>
ChainedPool == <<"x", "y", "z">>
MaxOffsets == {1, 15}
SecondsPerMinute == 60

Prefixes(pool, n) == {SubSeq(pool, 1, k) : k \in 0..n}

\* ---- values ----
NoneValue == [tag |-> "None", val |-> 0]
ValueError == [tag |-> "ValueError", val |-> 0]
Float(x) == [tag |-> "float", val |-> x]

Verdict(e, p) == [executed |-> e, passed |-> p]
Pending == Verdict("-", "-")
Raised == Verdict("raise", "ValueError")

\* ---- raw output of `ntpdate -q` as returned by cmd.run ----
Absent == [tag |-> "None", text |-> <<>>]
Text(t) == [tag |-> "str", text |-> t]
RawResponses ==
    { Absent,
      Text(<<"no", "server", "suitable">>),
      Text(<<"server", "x", "offset", "60", "\n", "adjust", "time", "offset">>),
      Text(<<"adjust", "offset", "abc">>),
      Text(<<"adjust", "offset", "-1000", "sec">>),
      Text(<<"adjust", "offset", "0.000000", "sec">>),
      Text(<<"server", "x", "offset", "1000", "\n", "adjust", "offset", "60", "sec">>),
      Text(<<"adjust", "offset", "1000", "sec">>) }

\* float(): the tokens Python parses, everything else raises ValueError
FloatTable ==
    [t \in {"-1000", "0.000000", "60", "1000"} |->
        CASE t = "-1000" -> 0 - 1000
          [] t = "0.000000" -> 0
          [] t = "60" -> 60
          [] t = "1000" -> 1000]

\* str.split(sep) on a token sequence
RECURSIVE SplitAt(_, _, _, _)
SplitAt(s, sep, cur, acc) ==
    IF s = <<>> THEN Append(acc, cur)
    ELSE IF Head(s) = sep
         THEN SplitAt(Tail(s), sep, <<>>, Append(acc, cur))
         ELSE SplitAt(Tail(s), sep, Append(cur, Head(s)), acc)

Split(s, sep) == SplitAt(s, sep, <<>>, <<>>)

\* float(ret.split('\n')[-1].split('offset')[1].split()[0]) with the
\* except clause (TypeError, AttributeError, IndexError) -> None
query_ntp_server(ret) ==
    IF ret.tag = "None" THEN NoneValue
    ELSE LET lines == Split(ret.text, "\n")
             last == lines[Len(lines)]
             parts == Split(last, "offset")
         IN  IF Len(parts) < 2 THEN NoneValue
             ELSE IF parts[2] = <<>> THEN NoneValue
             ELSE IF parts[2][1] \in DOMAIN FloatTable
                  THEN Float(FloatTable[parts[2][1]])
                  ELSE ValueError

\* `not offset`: None and 0.0 are both falsy
IsFalsy(off) == off.tag = "None" \/ (off.tag = "float" /\ off.val = 0)

\* variants of the threshold test: minutes converted twice; absolute value
ExceedsThreshold_hours(off, mo) == off.val > mo * SecondsPerMinute * 60

ExceedsThreshold_abs(off, mo) ==
    (IF off.val < 0 THEN 0 - off.val ELSE off.val) > mo * SecondsPerMinute

\* `offset > max_offset * 60`
ExceedsThreshold(off, mo) == off.val > mo * SecondsPerMinute

\* lines 64-68
QuorumVerdict(checked, nb) ==
    IF checked < nb THEN Verdict("False", "False") ELSE Verdict("True", "True")

\* variant of line 53: the input error reported as a failed check
NoServersVerdict_failed == Verdict("False", "False")

\* line 53
NoServersVerdict == Verdict("False", "None")

\* line 62
ViolationVerdict == Verdict("True", "False")

\* truthiness of a list reference: None and [] are falsy
Truthy(ref, h) == ref # "None" /\ h[ref] # <<>>

Deref(ref, h) == IF ref = "None" THEN <<>> ELSE h[ref]

\* variant of lines 45-50: chained placed in front of the servers
MergeChained_prepend(ext, srv, ch, h) ==
    IF ext /\ Truthy(ch, h)
    THEN IF Truthy(srv, h)
         THEN [ref |-> srv, heap |-> [h EXCEPT ![srv] = h[ch] \o h[srv]]]
         ELSE [ref |-> ch, heap |-> h]
    ELSE [ref |-> srv, heap |-> h]

\* variant of lines 45-50: every list object is extended, an empty one too
MergeChained_alwaysExtend(ext, srv, ch, h) ==
    IF ext /\ Truthy(ch, h)
    THEN IF srv # "None"
         THEN [ref |-> srv, heap |-> [h EXCEPT ![srv] = h[srv] \o h[ch]]]
         ELSE [ref |-> ch, heap |-> h]
    ELSE [ref |-> srv, heap |-> h]

\* lines 45-50
MergeChained(ext, srv, ch, h) ==
    IF ext /\ Truthy(ch, h)
    THEN IF Truthy(srv, h)
         THEN [ref |-> srv, heap |-> [h EXCEPT ![srv] = h[srv] \o h[ch]]]
         ELSE [ref |-> ch, heap |-> h]
    ELSE [ref |-> srv, heap |-> h]

VARIABLES
    heap,            \* contents of the caller's list objects S and C
    arg_servers,     \* reference passed as ntp_servers: "S" or "None"
    arg_chained,     \* reference passed as chained: "C" or "None"
    max_offset, nb_servers, extend_chained,
    pc,              \* position in time_check
    ntp_servers,     \* local variable ntp_servers (a reference)
    idx,             \* position of the for loop's iterator
    checked_servers,
    offset,
    result,          \* value returned by time_check
    queried,         \* addresses handed to the query collaborator in this call
    lastRet,         \* raw text the collaborator returned last
    parseable,       \* queries of this call that parsed to a float
    firstViolation,  \* position of the first query with offset above threshold
    heap0,           \* heap at entry of the current call
    orig,            \* heap before the first call
    calls

vars == <<heap, arg_servers, arg_chained, max_offset, nb_servers,
          extend_chained, pc, ntp_servers, idx, checked_servers, offset,
          result, queried, lastRet, parseable, firstViolation, heap0, orig,
          calls>>

params == <<arg_servers, arg_chained, max_offset, nb_servers, extend_chained,
            orig>>

Init ==
    /\ arg_servers \in {"S", "None"}
    /\ arg_chained \in {"C", "None"}
    /\ \E s \in Prefixes(ServerPool, MaxServers),
          c \in Prefixes(ChainedPool, MaxChained) :
          /\ (arg_servers = "None" => s = <<>>)
          /\ (arg_chained = "None" => c = <<>>)
          /\ heap = [S |-> s, C |-> c]
    /\ max_offset \in MaxOffsets
    /\ nb_servers \in 0..MaxQuorum
    /\ extend_chained \in BOOLEAN
    /\ pc = "idle"
    /\ ntp_servers = "None"
    /\ idx = 0
    /\ checked_servers = 0
    /\ offset = NoneValue
    /\ result = Pending
    /\ queried = <<>>
    /\ lastRet = Absent
    /\ parseable = 0
    /\ firstViolation = 0
    /\ heap0 = heap
    /\ orig = heap
    /\ calls = 0

\* the caller invokes time_check with the same objects and arguments
Call ==
    /\ pc \in {"idle", "returned", "raised"}
    /\ calls < MaxCalls
    /\ calls' = calls + 1
    /\ pc' = "merge"
    /\ ntp_servers' = arg_servers
    /\ heap0' = heap
    /\ idx' = 0
    /\ checked_servers' = 0
    /\ offset' = NoneValue
    /\ result' = Pending
    /\ queried' = <<>>
    /\ lastRet' = Absent
    /\ parseable' = 0
    /\ firstViolation' = 0
    /\ UNCHANGED <<heap, params>>

\* lines 45-50
Merge ==
    /\ pc = "merge"
    /\ LET m == MergeChained(extend_chained, ntp_servers, arg_chained, heap)
       IN  /\ ntp_servers' = m.ref
           /\ heap' = m.heap
    /\ pc' = "check"
    /\ UNCHANGED <<params, idx, checked_servers, offset, result, queried,
                   lastRet, parseable, firstViolation, heap0, calls>>

\* lines 51-55
CheckServers ==
    /\ pc = "check"
    /\ IF ~Truthy(ntp_servers, heap)
       THEN /\ result' = NoServersVerdict
            /\ pc' = "returned"
       ELSE /\ result' = result
            /\ pc' = "loop"
    /\ checked_servers' = 0
    /\ UNCHANGED <<heap, params, ntp_servers, idx, offset, queried, lastRet,
                   parseable, firstViolation, heap0, calls>>

\* lines 56-63: one iteration of the for loop
QueryServer ==
    /\ pc = "loop"
    /\ idx < Len(Deref(ntp_servers, heap))
    /\ \E ret \in RawResponses :
          LET off == query_ntp_server(ret)
              i == idx + 1
          IN  /\ queried' = Append(queried, Deref(ntp_servers, heap)[i])
              /\ lastRet' = ret
              /\ idx' = i
              /\ parseable' = IF off.tag = "float" THEN parseable + 1
                              ELSE parseable
              /\ firstViolation' =
                    IF /\ firstViolation = 0
                       /\ off.tag = "float"
                       /\ off.val > max_offset * 60
                    THEN i ELSE firstViolation
              /\ IF off.tag = "ValueError"
                 THEN /\ pc' = "raised"
                      /\ result' = Raised
                      /\ UNCHANGED <<offset, checked_servers>>
                 ELSE /\ offset' = off
                      /\ IF IsFalsy(off)
                         THEN UNCHANGED <<pc, result, checked_servers>>
                         ELSE IF ExceedsThreshold(off, max_offset)
                              THEN /\ pc' = "returned"
                                   /\ result' = ViolationVerdict
                                   /\ UNCHANGED checked_servers
                              ELSE /\ checked_servers' = checked_servers + 1
                                   /\ UNCHANGED <<pc, result>>
    /\ UNCHANGED <<heap, params, ntp_servers, heap0, calls>>

\* lines 64-68: the loop is exhausted
LoopExit ==
    /\ pc = "loop"
    /\ idx = Len(Deref(ntp_servers, heap))
    /\ result' = QuorumVerdict(checked_servers, nb_servers)
    /\ pc' = "returned"
    /\ UNCHANGED <<heap, params, ntp_servers, idx, checked_servers, offset,
                   queried, lastRet, parseable, firstViolation, heap0, calls>>

Next == Call \/ Merge \/ CheckServers \/ QueryServer \/ LoopExit

Spec == Init /\ [][Next]_vars

TypeOK ==
    /\ pc \in {"idle", "merge", "check", "loop", "returned", "raised"}
    /\ ntp_servers \in {"S", "C", "None"}
    /\ idx \in 0..Len(Deref(ntp_servers, heap))
    /\ checked_servers \in 0..idx
    /\ calls \in 0..MaxCalls

\* ---- vocabulary of the properties ----
PastMerge == pc \in {"check", "loop", "returned", "raised"}

Finished == pc \in {"returned", "raised"}

\* the list time_check validates and iterates over
Working == Deref(ntp_servers, heap)

\* servers followed by chained when merging applies, servers alone otherwise,
\* computed from the lists as they were when the call started
ExpectedWorking ==
    IF extend_chained /\ Deref(arg_chained, heap0) # <<>>
    THEN Deref(arg_servers, heap0) \o Deref(arg_chained, heap0)
    ELSE Deref(arg_servers, heap0)

IsPrefix(p, s) == Len(p) <= Len(s) /\ SubSeq(s, 1, Len(p)) = p

RECURSIVE Rep(_, _)
Rep(s, n) == IF n = 0 THEN <<>> ELSE s \o Rep(s, n - 1)

\* a query has just been made and its response is lastRet'
JustQueried == idx' = idx + 1

\* C1: when the i-th queried server is the first to return a parseable
\* offset above max_offset*60 seconds, time_check has returned (True, False)
\* and exactly i servers have been queried.
C1_ViolationShortCircuits ==
    firstViolation > 0 =>
        /\ pc = "returned"
        /\ result = Verdict("True", "False")
        /\ Len(queried) = firstViolation

C1_Witness ==
    /\ firstViolation = 2
    /\ Len(Working) > 2
    /\ Len(queried) = 2
    /\ result = Verdict("True", "False")

\* C2: when time_check returns after every server of a non-empty working
\* list was queried, none above the threshold, and fewer than nb_servers
\* servers yielded a parseable offset, the verdict is (True, False).
C2_QuorumNotMetVerdict ==
    ( /\ pc = "returned"
      /\ Working # <<>>
      /\ Len(queried) = Len(Working)
      /\ firstViolation = 0
      /\ parseable < nb_servers )
    => result = Verdict("True", "False")

\* C3: when time_check returns for a non-empty working list in which no
\* offset exceeded the threshold and at least nb_servers servers returned a
\* parseable offset (zero and negative offsets included), the verdict is
\* (True, True).
C3_QuorumMetPasses ==
    ( /\ pc = "returned"
      /\ Working # <<>>
      /\ firstViolation = 0
      /\ parseable >= nb_servers )
    => result = Verdict("True", "True")

\* C4: when the working list is empty after the merge, time_check returns
\* (False, None) and the query collaborator is never invoked.
C4_EmptyListIsInputError ==
    (PastMerge /\ ExpectedWorking = <<>>) =>
        /\ queried = <<>>
        /\ pc \in {"check", "returned"}
        /\ (pc = "returned" => result = Verdict("False", "None"))

C4_Witness ==
    /\ pc = "returned"
    /\ ExpectedWorking = <<>>
    /\ heap.C # <<>>
    /\ ~extend_chained
    /\ result = Verdict("False", "None")
    /\ queried = <<>>

\* C5: a query whose response is unusable (absent, no "offset" in the last
\* line, nothing after "offset", non-numeric text after "offset") parses to
\* None, leaves the responder count unchanged and lets the loop continue; no
\* error escapes time_check.
C5_UnusableResponseSkipped ==
    [][ (JustQueried /\ query_ntp_server(lastRet').tag # "float") =>
            /\ pc' = "loop"
            /\ offset' = NoneValue
            /\ checked_servers' = checked_servers ]_vars

\* C6: after the merge the working list is servers followed by chained when
\* extend_chained is true and chained is non-empty, and servers alone
\* otherwise; only its servers are queried, in order; a non-empty merged list
\* is never reported as an input error.
C6_WorkingListIsMerge ==
    PastMerge =>
        /\ Working = ExpectedWorking
        /\ IsPrefix(queried, ExpectedWorking)
        /\ (pc = "returned" /\ ExpectedWorking # <<>>
              => result # Verdict("False", "None"))

C6_Witness ==
    /\ pc = "returned"
    /\ extend_chained
    /\ arg_servers = "S"
    /\ heap0.S = <<>>
    /\ heap0.C # <<>>
    /\ queried = heap0.C
    /\ result = Verdict("True", "True")

\* C7: in every verdict time_check returns, executed is False exactly when
\* the working list was empty after the merge, passed is None exactly then,
\* and a non-empty working list gives (True, True) or (True, False).
C7_ExecutedIffNonEmpty ==
    pc = "returned" =>
        /\ (result.executed = "False" <=> Working = <<>>)
        /\ (result.passed = "None" <=> Working = <<>>)
        /\ (Working # <<>> =>
              result \in {Verdict("True", "True"), Verdict("True", "False")})

\* C8: a query that returns a negative parseable offset never ends the
\* evaluation: the server is counted and the loop goes on to the next server.
C8_NegativeOffsetNeverViolates ==
    [][ ( /\ JustQueried
          /\ query_ntp_server(lastRet').tag = "float"
          /\ query_ntp_server(lastRet').val < 0 ) =>
            /\ pc' = "loop"
            /\ result' = Pending
            /\ checked_servers' = checked_servers + 1 ]_vars

C8_Witness ==
    /\ pc = "loop"
    /\ max_offset = 15
    /\ idx = 2
    /\ idx < Len(Working)
    /\ offset = Float(0 - 1000)
    /\ checked_servers = 2

\* C9: the servers queried so far are a prefix of the working list, in list
\* order, and when the evaluation has ended they are the whole working list
\* unless a threshold violation ended it early.
C9_QueriedWholeUnlessViolation ==
    PastMerge =>
        /\ IsPrefix(queried, Working)
        /\ Len(queried) = idx
        /\ (Finished /\ firstViolation = 0 => queried = Working)

====
